---- MODULE Spec2Model ----
(***************************************************************************)
(* Model of mapmarkers.py: reconciliation of dynmap markers against the    *)
(* Minecraft map files of one world.                                       *)
(*                                                                         *)
(* Strings the program builds or compares character by character (map     *)
(* file names, marker ids, coordinate keys) are sequences of one-character *)
(* strings.  Python dicts are sequences of <<key, value>> pairs in         *)
(* insertion order.  Marker coordinates, which markers.yml stores as       *)
(* floating point numbers, are counted in half blocks, so that int() is    *)
(* the truncation it is in the program.                                    *)
(*                                                                         *)
(* Not modelled: a map_*.dat file whose name has no digits or that does    *)
(* not decode, a markers file without the marker set, and marker sets      *)
(* other than the one named on the command line; each ends the program     *)
(* with an uncaught exception or is never looked at.  A command that was   *)
(* delivered is applied by the server at once and in order; a dispatch     *)
(* that failed delivered nothing.                                          *)
(***************************************************************************)
EXTENDS Integers, Sequences, FiniteSets, TLC

VARIABLES
    argc,            \* len(sys.argv)
    markersIsFile,   \* os.path.isfile(markersFileName)
    mapsIsDir,       \* os.path.isdir(mapsDir)
    canOpen,         \* open(markersFileName, 'r') succeeds
    hasSets,         \* the markers file has the top-level key 'sets'
    mapFiles,        \* the map_<n>.dat files of mapsDir (a set of records)
    store,           \* the server's markers of the marker set, in file order
    pc,              \* position of the main program
    exitStatus,      \* -1 while running, else the process's exit status
    run,             \* number of the current invocation
    maps,            \* main: maps = loadMaps(...)
    markers,         \* main: markers = loadMarkers(...)
    todo,            \* the items a for loop has still to visit
    highestMapID,    \* loadMaps: coordsKey -> mapID
    allMaps,         \* loadMaps: mapID -> {x, z}
    sent,            \* every command handed to os.system, in order
    slept,           \* time.sleep(5) has returned in this run
    mapsRead,        \* a map file has been read in this run
    markersRead,     \* the markers file has been read in this run
    failures,        \* number of dispatches that failed so far
    before           \* the marker set when this invocation started

\* what an invocation is given and does not change
inputs == <<argc, markersIsFile, mapsIsDir, canOpen, hasSets, mapFiles>>

vars == <<argc, markersIsFile, mapsIsDir, canOpen, hasSets, mapFiles, store,
          pc,
          exitStatus, run, maps, markers, todo, highestMapID, allMaps, sent,
          slept, mapsRead, markersRead, failures, before>>

----------------------------------------------------------------------------
(* Bounds of the model. *)

MaxCoord == 1       \* map centres have x in 0..MaxCoord
MaxHalf == 2        \* marker x coordinates are 0..MaxHalf half blocks
MaxRuns == 2        \* invocations in a row
MaxFailures == 1    \* dispatches that may fail in one behaviour

(* Configuration. *)

MARKER_Y == 64

world == "world"
OtherWorld == "world_nether"

----------------------------------------------------------------------------
(* Strings and numbers. *)

DigitChars == <<"0", "1", "2", "3", "4", "5", "6", "7", "8", "9">>

RECURSIVE StrNat(_)
StrNat(n) ==
    IF n < 10 THEN <<DigitChars[n + 1]>>
    ELSE StrNat(n \div 10) \o <<DigitChars[(n % 10) + 1]>>

\* str(n) and the {n} of an f-string, for an integer n
Str(n) == IF n < 0 THEN <<"-">> \o StrNat(-n) ELSE StrNat(n)

DigitValue(c) == (CHOOSE d \in 1..10 : DigitChars[d] = c) - 1

\* int(s) for a string of decimal digits
RECURSIVE ParseInt(_)
ParseInt(s) ==
    IF Len(s) = 0 THEN 0
    ELSE 10 * ParseInt(SubSeq(s, 1, Len(s) - 1)) + DigitValue(s[Len(s)])

\* int(v) for a number v held in half blocks: truncation towards zero
int(v) == IF v >= 0 THEN v \div 2 ELSE -((-v) \div 2)

\* the half-block value of the integer n
Whole(n) == 2 * n

\* The order of characters in file names: '.' sorts before every digit.
CharOrd(c) == IF c = "." THEN 0 ELSE DigitValue(c) + 1

RECURSIVE StrLess(_, _)
StrLess(a, b) ==
    IF Len(b) = 0 THEN FALSE
    ELSE IF Len(a) = 0 THEN TRUE
    ELSE IF a[1] # b[1] THEN CharOrd(a[1]) < CharOrd(b[1])
    ELSE StrLess(Tail(a), Tail(b))

----------------------------------------------------------------------------
(* Python dicts: sequences of <<key, value>> in insertion order. *)

DictKeys(d) == {d[n][1] : n \in 1..Len(d)}

DictGet(d, k) == d[CHOOSE n \in 1..Len(d) : d[n][1] = k][2]

DictSet(d, k, v) ==
    IF k \in DictKeys(d)
    THEN [n \in 1..Len(d) |-> IF d[n][1] = k THEN <<k, v>> ELSE d[n]]
    ELSE Append(d, <<k, v>>)

DictAsSet(d) == {d[n] : n \in 1..Len(d)}

----------------------------------------------------------------------------
(* loadMaps *)

\* the part of a file name that orders map_<digits>.dat among its siblings
FileName(file) == file.digits \o <<".">>

\* sorted(glob.glob(f'{mapsDir}/map_*.dat'))
RECURSIVE SortedFiles(_)
SortedFiles(files) ==
    IF files = {} THEN <<>>
    ELSE LET first == CHOOSE f \in files :
                         \A g \in files \ {f} :
                             StrLess(FileName(f), FileName(g))
         IN  <<first>> \o SortedFiles(files \ {first})

coordsKeyOf(x, z) == Str(x) \o <<":">> \o Str(z)

\* lines 140-141 with the comparison turned round (keeps the lowest id)
HighestBodyWrongCompare(hi, coordsKey, mapID) ==
    IF coordsKey \notin DictKeys(hi) \/ DictGet(hi, coordsKey) > mapID
    THEN DictSet(hi, coordsKey, mapID)
    ELSE hi

\* lines 140-141
HighestBody(hi, coordsKey, mapID) ==
    IF coordsKey \notin DictKeys(hi) \/ DictGet(hi, coordsKey) < mapID
    THEN DictSet(hi, coordsKey, mapID)
    ELSE hi

\* One iteration of the loop over the files: the new <<highestMapID, allMaps>>.
LoadMapsBody(hi, all, file) ==
    IF file.dimension = "minecraft:" \o world
    THEN LET mapID == ParseInt(file.digits)
             scale == file.scale
         IN  IF scale = 0
             THEN LET x == file.xCenter
                      z == file.zCenter
                  IN  <<HighestBody(hi, coordsKeyOf(x, z), mapID),
                        DictSet(all, mapID, [x |-> x, z |-> z])>>
             ELSE <<hi, all>>
    ELSE <<hi, all>>

\* lines 144-147
RECURSIVE BuildResult(_, _, _)
BuildResult(hi, all, result) ==
    IF Len(hi) = 0 THEN result
    ELSE BuildResult(Tail(hi), all,
                     DictSet(result, Str(hi[1][2]), DictGet(all, hi[1][2])))

RECURSIVE LoadMapsLoop(_, _, _)
LoadMapsLoop(hi, all, files) ==
    IF Len(files) = 0 THEN <<hi, all>>
    ELSE LET st == LoadMapsBody(hi, all, files[1])
         IN  LoadMapsLoop(st[1], st[2], Tail(files))

loadMaps(files) ==
    LET st == LoadMapsLoop(<<>>, <<>>, SortedFiles(files))
    IN  BuildResult(st[1], st[2], <<>>)

----------------------------------------------------------------------------
(* loadMarkers *)

\* lines 99-104: the markers of the world whose label is their id
RECURSIVE loadMarkers(_)
loadMarkers(items) ==
    IF Len(items) = 0 THEN <<>>
    ELSE LET marker == items[1]
             id == marker.id
         IN  IF marker.world = world /\ marker.label = id
             THEN <<<<id, marker>>>> \o loadMarkers(Tail(items))
             ELSE loadMarkers(Tail(items))

----------------------------------------------------------------------------
(* The server's console: what a delivered command does to the marker set. *)

HasMarker(st, id) == \E n \in 1..Len(st) : st[n].id = id

RemoveMarker(st, id) == SelectSeq(st, LAMBDA m : m.id # id)

ServerApply(st, command) ==
    CASE command.op = "delete" -> RemoveMarker(st, command.id)
      [] command.op = "add" ->
            IF HasMarker(st, command.id) THEN st
            ELSE Append(st, [id |-> command.id, world |-> world,
                             label |-> command.id, x |-> Whole(command.x),
                             y |-> Whole(command.y), z |-> Whole(command.z)])
      [] OTHER -> st

----------------------------------------------------------------------------
(* Command dispatch *)

Outcomes == IF failures < MaxFailures THEN BOOLEAN ELSE {TRUE}

\* serverCommand as it would be if a failed os.system ended the program
serverCommandHalts(command, next) ==
    \E ok \in Outcomes :
        /\ sent' = Append(sent, [command EXCEPT !.ok = ok, !.run = run])
        /\ store' = IF ok THEN ServerApply(store, command) ELSE store
        /\ failures' = IF ok THEN failures ELSE failures + 1
        /\ pc' = IF ok THEN next ELSE "exit"

\* lines 151-160: os.system's status is discarded
serverCommand(command, next) ==
    \E ok \in Outcomes :
        /\ sent' = Append(sent, [command EXCEPT !.ok = ok, !.run = run])
        /\ store' = IF ok THEN ServerApply(store, command) ELSE store
        /\ failures' = IF ok THEN failures ELSE failures + 1
        /\ pc' = next

Command(op, id, x, y, z) ==
    [op |-> op, id |-> id, x |-> x, y |-> y, z |-> z, ok |-> TRUE, run |-> 0]

deleteMarker(id, next) ==
    serverCommand(Command("delete", id, 0, 0, 0), next)

addMarker(id, x, y, z, next) ==
    serverCommand(Command("add", id, x, y, z), next)

----------------------------------------------------------------------------
(* The inputs of an invocation. *)

MapNames == {Str(2), Str(3), Str(10)}
RunNames == {Str(2), Str(10)}
MarkerIDs == {Str(2), Str(10)}
OtherLabel == <<"h", "o", "m", "e">>

MapFile(digits, dimension, scale, x, z) ==
    [digits |-> digits, dimension |-> dimension, scale |-> scale,
     xCenter |-> x, zCenter |-> z]

\* Files of the world at full detail, and two kinds of file that do not count.
FilesNamed(digits, zs) ==
    {MapFile(digits, "minecraft:" \o world, 0, x, z) :
        x \in 0..MaxCoord, z \in zs}
    \cup {MapFile(digits, "minecraft:" \o OtherWorld, 0, 0, 0),
          MapFile(digits, "minecraft:" \o world, 1, 0, 0)}

\* Every directory content with at most one file per name.
Directories(names, zs) ==
    {dir \in SUBSET (UNION {FilesNamed(d, zs) : d \in names}) :
        \A f, g \in dir : f.digits = g.digits => f = g}

Marker(id, w, label, x, y, z) ==
    [id |-> id, world |-> w, label |-> label, x |-> x, y |-> y, z |-> z]

\* Markers of this program (label = id, in the world) at several places, and
\* markers that are somebody else's.
MarkersWithID(id) ==
    {Marker(id, world, id, x, Whole(MARKER_Y), 0) : x \in 0..MaxHalf}
    \cup {Marker(id, world, id, 0, Whole(MARKER_Y) + 1, 0),
          Marker(id, world, id, 0, Whole(MARKER_Y) + 2, 0),
          Marker(id, world, id, 0, Whole(MARKER_Y), 1),
          Marker(id, OtherWorld, id, 0, Whole(MARKER_Y), 0),
          Marker(id, world, OtherLabel, 0, Whole(MARKER_Y), 0)}

AllMarkers == UNION {MarkersWithID(id) : id \in MarkerIDs}

Stores ==
    {<<>>} \cup {<<m>> : m \in AllMarkers}
    \cup {p \in AllMarkers \X AllMarkers : p[1].id # p[2].id}

RECURSIVE Orders(_)
Orders(files) ==
    IF files = {} THEN {<<>>}
    ELSE UNION {{<<f>> \o rest : rest \in Orders(files \ {f})} : f \in files}

Fresh ==
    /\ pc = "start"
    /\ exitStatus = -1
    /\ run = 1
    /\ maps = <<>>
    /\ markers = <<>>
    /\ highestMapID = <<>>
    /\ allMaps = <<>>
    /\ sent = <<>>
    /\ slept = FALSE
    /\ mapsRead = FALSE
    /\ markersRead = FALSE
    /\ failures = 0

Init ==
    /\ argc \in {5, 6}
    /\ markersIsFile \in BOOLEAN
    /\ mapsIsDir \in BOOLEAN
    /\ canOpen \in BOOLEAN
    /\ hasSets \in BOOLEAN
    /\ IF argc = 6 /\ markersIsFile /\ mapsIsDir /\ canOpen /\ hasSets
       THEN /\ mapFiles \in Directories(RunNames, {0})
            /\ store \in Stores
       ELSE /\ mapFiles = {MapFile(Str(2), "minecraft:" \o world, 0, 0, 0)}
            /\ store = <<Marker(Str(10), world, Str(10), 0,
                                Whole(MARKER_Y), 0)>>
    /\ todo = <<>>
    /\ before = store
    /\ Fresh

----------------------------------------------------------------------------
(* The main program, lines 201-243. *)

Exit(status) ==
    /\ pc' = "exit"
    /\ exitStatus' = status

\* lines 202-203
CheckArgs ==
    /\ pc = "start"
    /\ IF argc # 6 THEN Exit(1) ELSE pc' = "checkFile" /\ UNCHANGED exitStatus
    /\ UNCHANGED <<inputs, store,
                   run, maps, markers, todo, highestMapID, allMaps, sent,
                   slept, mapsRead, markersRead, failures, before>>

\* lines 208-210
CheckMarkersFile ==
    /\ pc = "checkFile"
    /\ IF ~markersIsFile THEN Exit(1)
       ELSE pc' = "checkDir" /\ UNCHANGED exitStatus
    /\ UNCHANGED <<inputs, store,
                   run, maps, markers, todo, highestMapID, allMaps, sent,
                   slept, mapsRead, markersRead, failures, before>>

\* lines 212-214 without the sys.exit(1)
CheckMapsDirNoExit ==
    /\ pc = "checkDir"
    /\ pc' = "saveAll"
    /\ UNCHANGED <<inputs, store,
                   exitStatus, run, maps, markers, todo, highestMapID, allMaps,
                   sent, slept, mapsRead, markersRead, failures, before>>

\* lines 212-214
CheckMapsDir ==
    /\ pc = "checkDir"
    /\ IF ~mapsIsDir THEN Exit(1)
       ELSE pc' = "saveAll" /\ UNCHANGED exitStatus
    /\ UNCHANGED <<inputs, store,
                   run, maps, markers, todo, highestMapID, allMaps, sent,
                   slept, mapsRead, markersRead, failures, before>>

\* line 217
SaveAll ==
    /\ pc = "saveAll"
    /\ serverCommand(Command("save-all", <<>>, 0, 0, 0), "sleep")
    /\ UNCHANGED <<inputs,
                   exitStatus, run, maps, markers, todo, highestMapID, allMaps,
                   slept, mapsRead, markersRead, before>>

\* line 218 left out
SleepSkipped ==
    /\ pc = "sleep"
    /\ pc' = "loadMaps"
    /\ UNCHANGED <<inputs, store,
                   exitStatus, run, maps, markers, todo, highestMapID, allMaps,
                   sent, slept, mapsRead, markersRead, failures, before>>

\* line 218
Sleep ==
    /\ pc = "sleep"
    /\ slept' = TRUE
    /\ pc' = "loadMaps"
    /\ UNCHANGED <<inputs, store,
                   exitStatus, run, maps, markers, todo, highestMapID, allMaps,
                   sent, mapsRead, markersRead, failures, before>>

\* line 219
LoadMaps ==
    /\ pc = "loadMaps"
    /\ maps' = loadMaps(mapFiles)
    /\ mapsRead' = (mapFiles # {})
    /\ pc' = "loadMarkers"
    /\ UNCHANGED <<inputs, store,
                   exitStatus, run, markers, todo, highestMapID, allMaps,
                   sent, slept, markersRead, failures, before>>

\* line 221, and lines 88-97 of loadMarkers
LoadMarkers ==
    /\ pc = "loadMarkers"
    /\ markersRead' = canOpen
    /\ IF ~canOpen \/ ~hasSets
       THEN Exit(1) /\ UNCHANGED <<markers, todo>>
       ELSE /\ markers' = loadMarkers(store)
            /\ todo' = [n \in 1..Len(markers') |-> markers'[n][1]]
            /\ pc' = "prune"
            /\ UNCHANGED exitStatus
    /\ UNCHANGED <<inputs, store,
                   run, maps, highestMapID, allMaps, sent, slept, mapsRead,
                   failures, before>>

\* lines 229-231 without the test of line 230
PruneEverything ==
    /\ pc = "prune"
    /\ todo # <<>>
    /\ deleteMarker(Head(todo), "prune")
    /\ todo' = Tail(todo)
    /\ UNCHANGED <<inputs,
                   exitStatus, run, maps, markers, highestMapID, allMaps,
                   slept, mapsRead, markersRead, before>>

\* lines 229-231 with the test of line 230 negated
PruneUsed ==
    /\ pc = "prune"
    /\ todo # <<>>
    /\ LET mapID == Head(todo)
       IN  IF mapID \in DictKeys(maps)
           THEN deleteMarker(mapID, "prune")
           ELSE UNCHANGED <<pc, sent, store, failures>>
    /\ todo' = Tail(todo)
    /\ UNCHANGED <<inputs,
                   exitStatus, run, maps, markers, highestMapID, allMaps,
                   slept, mapsRead, markersRead, before>>

\* lines 229-231, one iteration
Prune ==
    /\ pc = "prune"
    /\ todo # <<>>
    /\ LET mapID == Head(todo)
       IN  IF mapID \notin DictKeys(maps)
           THEN deleteMarker(mapID, "prune")
           ELSE UNCHANGED <<pc, sent, store, failures>>
    /\ todo' = Tail(todo)
    /\ UNCHANGED <<inputs,
                   exitStatus, run, maps, markers, highestMapID, allMaps,
                   slept, mapsRead, markersRead, before>>

\* line 229 at the end of markers.keys(), line 235
PruneEnd ==
    /\ pc = "prune"
    /\ todo = <<>>
    /\ todo' = maps
    /\ pc' = "sync"
    /\ UNCHANGED <<inputs, store,
                   exitStatus, run, maps, markers, highestMapID, allMaps,
                   sent, slept, mapsRead, markersRead, failures, before>>

\* line 238
NeedsUpdate(mapData, marker) ==
    \/ mapData.x # int(marker.x)
    \/ MARKER_Y # int(marker.y)
    \/ mapData.z # int(marker.z)

\* lines 235-243, one iteration up to its first command
Sync ==
    /\ pc = "sync"
    /\ todo # <<>>
    /\ LET mapID == Head(todo)[1]
           mapData == Head(todo)[2]
       IN  IF mapID \in DictKeys(markers)
           THEN IF NeedsUpdate(mapData, DictGet(markers, mapID))
                THEN deleteMarker(mapID, "syncAdd") /\ todo' = todo
                ELSE /\ todo' = Tail(todo)
                     /\ UNCHANGED <<pc, sent, store, failures>>
           ELSE /\ addMarker(mapID, mapData.x, MARKER_Y, mapData.z, "sync")
                /\ todo' = Tail(todo)
    /\ UNCHANGED <<inputs,
                   exitStatus, run, maps, markers, highestMapID, allMaps,
                   slept, mapsRead, markersRead, before>>

\* line 240
SyncAdd ==
    /\ pc = "syncAdd"
    /\ LET mapID == Head(todo)[1]
           mapData == Head(todo)[2]
       IN  addMarker(mapID, mapData.x, MARKER_Y, mapData.z, "sync")
    /\ todo' = Tail(todo)
    /\ UNCHANGED <<inputs,
                   exitStatus, run, maps, markers, highestMapID, allMaps,
                   slept, mapsRead, markersRead, before>>

\* the end of the script
SyncEnd ==
    /\ pc = "sync"
    /\ todo = <<>>
    /\ pc' = "done"
    /\ exitStatus' = 0
    /\ UNCHANGED <<inputs, store,
                   run, maps, markers, todo, highestMapID, allMaps, sent,
                   slept, mapsRead, markersRead, failures, before>>

\* The program is invoked again; the map files are what they were.
NextRun ==
    /\ pc = "done"
    /\ run < MaxRuns
    /\ run' = run + 1
    /\ pc' = "start"
    /\ exitStatus' = -1
    /\ maps' = <<>>
    /\ markers' = <<>>
    /\ slept' = FALSE
    /\ mapsRead' = FALSE
    /\ markersRead' = FALSE
    /\ UNCHANGED <<inputs, store,
                   todo, highestMapID, allMaps, sent, failures>>
    /\ before' = store

Next ==
    \/ CheckArgs
    \/ CheckMarkersFile
    \/ CheckMapsDir
    \/ SaveAll
    \/ Sleep
    \/ LoadMaps
    \/ LoadMarkers
    \/ Prune
    \/ PruneEnd
    \/ Sync
    \/ SyncAdd
    \/ SyncEnd
    \/ NextRun

Spec == Init /\ [][Next]_vars

----------------------------------------------------------------------------
(* loadMaps step by step, for any order in which the files are enumerated. *)

InitMaps ==
    /\ argc = 6
    /\ markersIsFile = TRUE
    /\ mapsIsDir = TRUE
    /\ canOpen = TRUE
    /\ hasSets = TRUE
    /\ mapFiles \in Directories(MapNames, {-1, 0})
    /\ store = <<>>
    /\ before = <<>>
    /\ todo \in Orders(mapFiles)
    /\ pc = "loadMapsLoop"
    /\ exitStatus = -1
    /\ run = 1
    /\ maps = <<>>
    /\ markers = <<>>
    /\ highestMapID = <<>>
    /\ allMaps = <<>>
    /\ sent = <<>>
    /\ slept = TRUE
    /\ mapsRead = FALSE
    /\ markersRead = FALSE
    /\ failures = 0

\* lines 125-141, one iteration
LoadMapsIter ==
    /\ pc = "loadMapsLoop"
    /\ todo # <<>>
    /\ LET st == LoadMapsBody(highestMapID, allMaps, Head(todo))
       IN  highestMapID' = st[1] /\ allMaps' = st[2]
    /\ todo' = Tail(todo)
    /\ mapsRead' = TRUE
    /\ UNCHANGED <<inputs, store,
                   pc, exitStatus, run, maps, markers, sent, slept,
                   markersRead, failures, before>>

\* lines 144-147
LoadMapsReturn ==
    /\ pc = "loadMapsLoop"
    /\ todo = <<>>
    /\ maps' = BuildResult(highestMapID, allMaps, <<>>)
    /\ pc' = "loadMapsDone"
    /\ UNCHANGED <<inputs, store,
                   exitStatus, run, markers, todo, highestMapID, allMaps,
                   sent, slept, mapsRead, markersRead, failures, before>>

NextMaps ==
    \/ LoadMapsIter
    \/ LoadMapsReturn

SpecMaps == InitMaps /\ [][NextMaps]_vars

----------------------------------------------------------------------------
(* Vocabulary of the properties. *)

IsDmarker(c) == c.op \in {"delete", "add"}

\* the dmarker commands of invocation r that name marker id
CommandsFor(r, id) ==
    SelectSeq(sent, LAMBDA c : c.run = r /\ IsDmarker(c) /\ c.id = id)

Ops(cs) == [n \in 1..Len(cs) |-> cs[n].op]

\* a command as the program issued it, whatever became of it
Issued(c) == [op |-> c.op, id |-> c.id, x |-> c.x, y |-> c.y, z |-> c.z]
IssuedSeq(cs) == [n \in 1..Len(cs) |-> Issued(cs[n])]

Delete(id) == [op |-> "delete", id |-> id, x |-> 0, y |-> 0, z |-> 0]
Add(id, x, y, z) == [op |-> "add", id |-> id, x |-> x, y |-> y, z |-> z]

IDsSeen == MarkerIDs \cup {sent[n].id : n \in 1..Len(sent)} \cup DictKeys(maps)

Managed(m) == m.world = "world" /\ m.label = m.id

StoreSet(st) == {st[n] : n \in 1..Len(st)}

NoFailureIn(r) == \A n \in 1..Len(sent) : sent[n].run = r => sent[n].ok

\* the expected canonical table of a directory
Counted(files) ==
    {f \in files : f.dimension = "minecraft:world" /\ f.scale = 0}
Locations(files) == {<<f.xCenter, f.zCenter>> : f \in Counted(files)}
MaxIDAt(files, loc) ==
    LET ids == {ParseInt(f.digits) :
                    f \in {g \in Counted(files) :
                              <<g.xCenter, g.zCenter>> = loc}}
    IN  CHOOSE i \in ids : \A k \in ids : k <= i
Canonical(files) ==
    {<<Str(MaxIDAt(files, loc)), [x |-> loc[1], z |-> loc[2]]>> :
        loc \in Locations(files)}

----------------------------------------------------------------------------
(* C1: Convergence.  When an invocation has ended and every command it     *)
(* issued reached the server, the markers of the world whose label is      *)
(* their id are exactly one per canonical id, at (x, MARKER_Y, z).         *)
C1_Convergence ==
    (pc = "done" /\ NoFailureIn(run)) =>
        {m \in StoreSet(store) : Managed(m)} =
            {Marker(e[1], "world", e[1], 2 * e[2].x, 2 * 64, 2 * e[2].z) :
                e \in DictAsSet(maps)}

(* C2: Idempotence.  When the first invocation's commands all reached the  *)
(* server and the maps are unchanged, the next invocation issues no        *)
(* dmarker command.                                                        *)
C2_Idempotence ==
    (pc = "done" /\ run >= 2 /\ failures = 0) =>
        \A n \in 1..Len(sent) : sent[n].run = run => ~IsDmarker(sent[n])

(* C3: loadMaps returns exactly one entry per distinct (x, z) among the    *)
(* files of the world with scale 0, keyed by the string of the highest id  *)
(* at that place and valued by the place, whatever the order in which the  *)
(* files are enumerated.                                                   *)
C3_LoadMaps ==
    pc = "loadMapsDone" =>
        /\ DictAsSet(maps) = Canonical(mapFiles)
        /\ Len(maps) = Cardinality(Locations(mapFiles))

\* Two files at one place were enumerated highest id first, beside a file
\* with a still higher id that does not count.
C3_Witness ==
    /\ pc = "loadMapsDone"
    /\ \E a, b \in 1..Len(allMaps) :
          /\ a < b /\ allMaps[a][2] = allMaps[b][2]
          /\ allMaps[a][1] > allMaps[b][1]
    /\ \E f \in mapFiles \ Counted(mapFiles) :
          \A a \in 1..Len(allMaps) : ParseInt(f.digits) > allMaps[a][1]

(* C4: Markers whose label differs from their id, or of another world, are *)
(* never in the MarkerTable, and no Delete or Add is issued with the id of *)
(* such a marker.                                                          *)
C4_ForeignUntouched ==
    /\ \A n \in 1..Len(markers) : Managed(markers[n][2])
    /\ \A n \in 1..Len(sent) :
          (sent[n].run = run /\ IsDmarker(sent[n])) =>
              ~\E m \in StoreSet(before) : m.id = sent[n].id /\ ~Managed(m)

(* C5: In one invocation the commands naming one id are one of [],         *)
(* [Delete], [Add], [Delete, Add].                                         *)
C5_PerIdShape ==
    \A r \in 1..run : \A id \in IDsSeen :
        Ops(CommandsFor(r, id)) \in
            {<<>>, <<"delete">>, <<"add">>, <<"delete", "add">>}

\* An invocation both re-created one marker and pruned another.
C5_Witness ==
    \E id, other \in IDsSeen :
        /\ Ops(CommandsFor(run, id)) = <<"delete", "add">>
        /\ Ops(CommandsFor(run, other)) = <<"delete">>
        /\ pc = "done"

(* C6: Sync pass.  For every entry (id, (x, z)) of the canonical table:    *)
(* Add alone when id has no marker in the MarkerTable; Delete then Add     *)
(* when its marker's (x, y, z) differs from (x, MARKER_Y, z) in any        *)
(* coordinate; nothing when they are equal.                                *)
C6_SyncPass ==
    pc = "done" =>
        \A e \in DictAsSet(maps) :
            LET id == e[1]
                add == Add(id, e[2].x, 64, e[2].z)
                issued == IssuedSeq(CommandsFor(run, id))
            IN  IF id \notin DictKeys(markers) THEN issued = <<add>>
                ELSE LET m == DictGet(markers, id)
                     IN  IF \/ m.x # 2 * e[2].x
                            \/ m.y # 2 * 64
                            \/ m.z # 2 * e[2].z
                         THEN issued = <<Delete(id), add>>
                         ELSE issued = <<>>

(* C7: When the markers file is no regular file or the maps directory is   *)
(* no directory, the invocation ends with exit status 1, no command has    *)
(* been dispatched and no map or marker file has been read.                *)
C7_Preconditions ==
    (~markersIsFile \/ ~mapsIsDir) =>
        /\ sent = <<>>
        /\ ~mapsRead /\ ~markersRead
        /\ pc \in {"start", "checkFile", "checkDir", "exit"}
        /\ exitStatus \in {-1, 1}
        /\ pc = "exit" <=> exitStatus = 1

\* The run was stopped by the second check.
C7_Witness ==
    argc = 6 /\ markersIsFile /\ ~mapsIsDir /\ pc = "exit" /\ exitStatus = 1

(* C8: save-all is dispatched and the settle delay has elapsed before the  *)
(* first map file is read, and save-all precedes every dmarker command of  *)
(* the invocation.                                                         *)
C8_SaveAllFirst ==
    /\ mapsRead =>
          /\ slept
          /\ \E n \in 1..Len(sent) :
                sent[n].run = run /\ sent[n].op = "save-all"
    /\ \A n \in 1..Len(sent) :
          IsDmarker(sent[n]) =>
              \E k \in 1..(n - 1) :
                  sent[k].run = sent[n].run /\ sent[k].op = "save-all"

C8_Witness ==
    /\ mapsRead
    /\ \E n \in 1..Len(sent) : sent[n].run = run /\ IsDmarker(sent[n])

(* C9 as stated: once a dispatch has failed, no later command of that      *)
(* invocation is dispatched.                                               *)
C9_FailureHalts ==
    \A a, b \in 1..Len(sent) :
        (a < b /\ sent[a].run = sent[b].run) => sent[a].ok

(* C9 amended: the status of a dispatch is discarded.  A failed dispatch   *)
(* never ends the invocation, and after a failed Delete(id) of a           *)
(* delete+add pair the Add(id) is the next command dispatched.             *)
C9_FailureIgnored ==
    /\ (pc = "exit" /\ sent # <<>>) => (~canOpen \/ ~hasSets)
    /\ \A n \in 1..Len(sent) :
          (~sent[n].ok /\ sent[n].op = "delete"
                /\ sent[n].id \in DictKeys(loadMaps(mapFiles))) =>
              IF n = Len(sent) THEN pc = "syncAdd"
              ELSE /\ sent[n + 1].op = "add"
                   /\ sent[n + 1].id = sent[n].id
                   /\ sent[n + 1].run = sent[n].run

\* A Delete failed and the Add of its pair was dispatched all the same.
C9_Witness ==
    \E n \in 1..(Len(sent) - 1) :
        /\ ~sent[n].ok /\ sent[n].op = "delete"
        /\ sent[n + 1].op = "add" /\ sent[n + 1].id = sent[n].id
        /\ pc = "done"

(* C10: Prune pass.  An id gets a Delete that no Add follows exactly when  *)
(* it is in the MarkerTable and not in the canonical table, and every such *)
(* Delete is dispatched before the first Add of the invocation.            *)
C10_PrunePass ==
    pc = "done" =>
        /\ \A id \in IDsSeen :
              Ops(CommandsFor(run, id)) = <<"delete">> <=>
                  (id \in DictKeys(markers) /\ id \notin DictKeys(maps))
        /\ \A a, b \in 1..Len(sent) :
              (/\ sent[a].run = run /\ sent[b].run = run
               /\ sent[a].op = "add" /\ sent[b].op = "delete"
               /\ Ops(CommandsFor(run, sent[b].id)) = <<"delete">>) => b < a

\* A marker was pruned in an invocation that also added one.
C10_Witness ==
    /\ pc = "done"
    /\ \E a, b \in 1..Len(sent) :
          /\ sent[a].run = run /\ sent[b].run = run
          /\ sent[a].op = "add" /\ sent[b].op = "delete"
          /\ Ops(CommandsFor(run, sent[b].id)) = <<"delete">>

====
